---- MODULE Spec2Model ----
(***************************************************************************)
(* The ProPresenter integration client of the lyrics server                *)
(* (backend/internal/propresenter/client.go) with its callers in           *)
(* cmd/server/main.go and internal/handlers/handlers.go, as a state        *)
(* machine: the Client struct, the goroutines that use it (main, the       *)
(* periodic health-check goroutine, request handlers) and the device as    *)
(* a nondeterministic responder.                                           *)
(***************************************************************************)
EXTENDS Integers, Sequences, FiniteSets, TLC

\* ------------------------------------------------------------------ bounds

\* time.Now() gives a value in 1..MaxTime (0 is the zero time.Time).
MaxTime == 2

\* How deep the recursion CreatePlaylist -> FindOrCreatePlaylist is counted.
MaxDepth == 2

\* The song creations and updates followed.
MaxEdits == 100

\* The rows inserted into queue_items.
MaxQueued == 3

\* The manual backups an administrator asks for.
MaxManual == 1

\* The days the daily backup goroutine is followed through.
MaxDaily == 1

\* ------------------------------------------------------- program constants

\* main: backup.NewManager(dbDSN, backupDir, 100)
editsThreshold == 100

\* Health: for attempt := 0; attempt < 3; attempt++
MaxAttempts == 3

\* SendToLiveQueue: for attempt := 0; attempt < 3; attempt++ (each step)
StepAttempts == 3

\* ------------------------------------------------------------------ values

Hosts == {"h1", "h2"}

\* The goroutines: main (New, StartPeriodicHealthCheck, Listen), the periodic
\* health-check goroutine, and one request goroutine per handler that uses
\* the client: ProPresenterStatus, UpdateSettings, and one that calls the
\* client's library, playlist and command operations.
Readers == {"status"}

Procs == {"main", "ticker", "status", "settings", "queue"}

\* *Config values handed to New and Reconfigure: nil, Enabled=false,
\* Enabled=true with an empty Host, and Enabled=true with a host.
NilConfig == [nil |-> TRUE, Host |-> "", Enabled |-> FALSE, PlaylistID |-> ""]

Config ==
    {NilConfig, [nil |-> FALSE, Host |-> "h1", Enabled |-> FALSE, PlaylistID |-> "Other"]}
        \cup {[nil |-> FALSE, Host |-> h, Enabled |-> TRUE,
                PlaylistID |-> IF h = "h1" THEN "Other" ELSE ""] : h \in Hosts \cup {""}}

NoReq == [kind |-> "none", url |-> "", en |-> FALSE]

\* The requests the operations send: each is named after the method that
\* sends it.
Methods ==
    {"GetLibrary", "SearchLibrary", "GetPlaylists", "CreatePlaylist",
     "AddToPlaylist", "TriggerLibraryItem", "TriggerNextSlide",
     "TriggerPreviousSlide", "ClearLayer"}

\* No response at hand.
NoAnswer == [st |-> "none", items |-> <<>>]

\* The locals of an operation of the queue goroutine before it starts: the
\* client method running, the title and playlist name given, SendToLiveQueue's
\* step and attempt, the item and playlist resolved, the depth of the
\* FindOrCreatePlaylist/CreatePlaylist recursion, and the endpoint of the
\* first request issued ("-" while there is none); the response the method
\* is about to decode; and, of the requests issued so far by the operation,
\* their kinds, the number of add-to-playlist requests, how many of these
\* were answered with success, and the playlist and item UUIDs the last one
\* carried; and whether the UUID or layer name the caller gave makes a URL
\* that http.NewRequest can parse.
WfIdle == [meth |-> "none", title |-> "", name |-> "", step |-> 0, attempt |-> 0,
           item |-> "", playlist |-> "", depth |-> 0, first |-> "-",
           ans |-> NoAnswer, sent |-> {}, adds |-> 0, okAdds |-> 0,
           body |-> <<"-", "-">>, path |-> "ok"]

\* The goroutines that use the backup manager: the one CreateSong and
\* UpdateSong start to check the edit threshold, the handler of
\* POST /api/admin/backups, and the goroutine Manager.Start starts for the
\* daily backup.
Workers == {"threshold", "admin", "daily"}

\* The backup types these goroutines pass to Manager.CreateBackup.
BackupTypes == {"edit-threshold", "manual", "daily"}

\* The request goroutines that use the local song queue, and the songs
\* they name.
Callers == {"a", "b"}

QueueSongs == {"s1", "s2", "s3"}

\* The locals of a queue call before it starts.
NoLocals == [song |-> "", id |-> 0, pos |-> 0]

VARIABLES
    enabled,     \* Client.enabled
    connected,   \* Client.connected
    baseURL,     \* Client.baseURL (the host; scheme and port are fixed text)
    config,      \* Client.config
    httpClient,  \* Client.httpClient # nil
    lastCheck,   \* Client.lastCheck
    mu,          \* Client.mu: "free" or the goroutine holding the write lock
    ticker,      \* "off", or "on" once the health-check goroutine was started
    pc,          \* where each goroutine is
    op,          \* the operation each goroutine is in
    arg,         \* the *Config argument of the Reconfigure a goroutine is in
    req,         \* the HTTP request a goroutine has in flight
    tries,       \* outcomes of the status requests of the current call
    lastErr,     \* Health's lastErr: 0 is nil, i the error of attempt i
    result,      \* what the operation returned
    obs,         \* ProPresenterStatus: the values IsEnabled and IsConnected gave
    during,      \* the (enabled, connected) states published while a status read ran
    wf,          \* locals of the library/playlist/command operation in progress
    songs,       \* the number of rows of the songs table
    edits,       \* song creations and updates the handlers have carried out
    lastEditCount, \* backup.Manager.lastEditCount
    bmu,         \* backup.Manager.mu: "free" or the goroutine holding it
    bpc,         \* where each goroutine that uses the backup manager is
    count,       \* the count the threshold goroutine got from GetEditCount
    backups,     \* the backups made and the backups that failed, by type
    rows,        \* the rows of the queue_items table: id, song_id, position
    nextId,      \* the next value of the table's id sequence
    schema,      \* the constraints of the table, "unknown" before it is created
    qpc,         \* where each goroutine that uses the local queue is
    qloc,        \* its locals: the song, the item id and the position at hand
    qres         \* what its last call returned

\* The backup manager, the songs table and the goroutines using them.
manager == <<songs, edits, lastEditCount, bmu, bpc, count, backups>>

vars == <<enabled, connected, baseURL, config, httpClient, lastCheck, mu,
          ticker, pc, op, arg, req, tries, lastErr, result, obs, during, wf,
          songs, edits, lastEditCount, bmu, bpc, count, backups,
          rows, nextId, schema, qpc, qloc, qres>>

\* The local song queue and the goroutines using it.
localQueue == <<rows, nextId, schema, qpc, qloc, qres>>

\* The integration client and the goroutines using it.
integration ==
    <<enabled, connected, baseURL, config, httpClient, lastCheck, mu,
      ticker, pc, op, arg, req, tries, lastErr, result, obs, during, wf>>

client == <<enabled, connected, baseURL, config, httpClient, lastCheck>>

\* The connection state as a reader holding the lock sees it.
ConnState == <<enabled, connected>>

\* ----------------------------------------------------------------- helpers

\* Reconfigure line 147: config == nil || !config.Enabled || config.Host == ""
Disabling(cfg) == cfg.nil \/ ~cfg.Enabled \/ cfg.Host = ""

\* time.Now(): the clock never runs backwards, so a reading is no earlier
\* than the one stored last.
Now == {t \in 1..MaxTime : t >= lastCheck}

Listening == op["main"] = "Listen"

Reading(q) == op[q] = "Status" /\ pc[q] # "done"

\* Every step records, for each handler in the middle of ProPresenterStatus,
\* the connection state the step leaves behind once the lock is free.
Track ==
    during' = [q \in Readers |->
                 IF Reading(q) /\ mu' = "free"
                 THEN during[q] \cup {<<enabled', connected'>>}
                 ELSE during[q]]

\* A goroutine enters an operation: its locals start empty.
Begin(p, o, a) ==
    /\ op' = [op EXCEPT ![p] = o]
    /\ arg' = [arg EXCEPT ![p] = a]
    /\ tries' = [tries EXCEPT ![p] = <<>>]
    /\ lastErr' = [lastErr EXCEPT ![p] = 0]

\* ------------------------------------------------------------------- New

\* The Client value New has built when it reaches its Health call (or its
\* return, for a nil or not-enabled config).
Init ==
    /\ \E cfg \in Config :
         IF cfg.nil \/ ~cfg.Enabled
         THEN /\ enabled = FALSE /\ httpClient = FALSE
              /\ baseURL = "" /\ config = NilConfig
              /\ pc = [p \in Procs |-> "done"]
         ELSE /\ enabled = TRUE /\ httpClient = TRUE
              /\ baseURL = cfg.Host /\ config = cfg
              /\ pc = [p \in Procs |-> IF p = "main" THEN "health_call" ELSE "done"]
    /\ connected = FALSE
    /\ lastCheck = 0
    /\ mu = "free"
    /\ ticker = "off"
    /\ op = [p \in Procs |-> IF p = "main" THEN "New" ELSE "none"]
    /\ arg = [p \in Procs |-> NilConfig]
    /\ req = [p \in Procs |-> NoReq]
    /\ tries = [p \in Procs |-> <<>>]
    /\ lastErr = [p \in Procs |-> 0]
    /\ result = [p \in Procs |-> "none"]
    /\ obs = [p \in Readers |-> [e |-> FALSE, c |-> FALSE]]
    /\ during = [p \in Readers |-> {}]
    /\ wf = WfIdle
    /\ songs = 0
    /\ edits = 0
    /\ lastEditCount = 0
    /\ bmu = "free"
    /\ bpc = [g \in Workers |-> "idle"]
    /\ count = 0
    /\ backups = [t \in BackupTypes |-> [made |-> 0, failed |-> 0]]
    /\ rows = {}
    /\ nextId = 1
    /\ schema = "unknown"
    /\ qpc = [c \in Callers |-> "idle"]
    /\ qloc = [c \in Callers |-> NoLocals]
    /\ qres = [c \in Callers |-> "none"]

\* New lines 132-137: after a successful Health, connected and lastCheck
\* are written once more under the lock.
NewPublish(p) ==
    /\ pc[p] = "new_publish"
    /\ mu = "free"
    /\ connected' = TRUE
    /\ lastCheck' \in Now
    /\ pc' = [pc EXCEPT ![p] = "done"]
    /\ UNCHANGED <<enabled, baseURL, config, httpClient, mu, ticker, op, arg,
                   req, tries, lastErr, result, obs>>
    /\ UNCHANGED wf
    /\ Track
    /\ UNCHANGED <<manager, localQueue>>

\* ------------------------------------------------------------------ main

\* StartPeriodicHealthCheck: returns at once when the client is not
\* enabled, and starts the goroutine otherwise.
StartPeriodicHealthCheck(p) ==
    /\ p = "main"
    /\ op[p] = "New" /\ pc[p] = "done"
    /\ op' = [op EXCEPT ![p] = "Started"]
    /\ ticker' = IF enabled THEN "on" ELSE "off"
    /\ UNCHANGED <<client, mu, pc, arg, req, tries, lastErr, result, obs>>
    /\ UNCHANGED wf
    /\ Track
    /\ UNCHANGED <<manager, localQueue>>

\* main reaches app.Listen, with or without having started the health check
\* (the New(nil) branches and the env fallback after a settings error do
\* not start it).
Listen(p) ==
    /\ p = "main"
    /\ op[p] \in {"New", "Started"} /\ pc[p] = "done"
    /\ op' = [op EXCEPT ![p] = "Listen"]
    /\ UNCHANGED <<client, mu, ticker, pc, arg, req, tries, lastErr, result, obs>>
    /\ UNCHANGED wf
    /\ Track
    /\ UNCHANGED <<manager, localQueue>>

\* ------------------------------------------------------ healthCheckLocked

\* What the caller of Health does with its result: New publishes once more
\* after a success; ProPresenterStatus answers at once after a failure and
\* reads IsConnected again after a success.
AfterHealth(p, ok) ==
    CASE op[p] = "New" -> IF ok THEN "new_publish" ELSE "done"
      [] op[p] = "Status" -> IF ok THEN "st_conn2" ELSE "ret"
      [] OTHER -> "ret"

\* healthCheckLocked line 177: c.httpClient.Get(c.baseURL + "/v1/status").
\* With a nil httpClient the call panics: the deferred Unlock of Health or
\* Reconfigure releases the lock and the panic leaves the operation (the
\* recover middleware answers the request).
healthCheckLockedSend(p) ==
    /\ pc[p] = "probe_send"
    /\ IF httpClient
       THEN /\ req' = [req EXCEPT ![p] = [kind |-> "status", url |-> baseURL, en |-> enabled]]
            /\ pc' = [pc EXCEPT ![p] = "probe_wait"]
            /\ UNCHANGED <<mu, result>>
       ELSE /\ mu' = "free"
            /\ result' = [result EXCEPT ![p] = "panic"]
            /\ pc' = [pc EXCEPT ![p] = "ret"]
            /\ UNCHANGED req
    /\ UNCHANGED <<client, ticker, op, arg, tries, lastErr, obs>>
    /\ UNCHANGED wf
    /\ Track
    /\ UNCHANGED <<manager, localQueue>>

\* ---------------------------------------------------------------- Health

\* Health lines 651-657: take the lock; a disabled client gets connected =
\* false and the not-enabled error.
HealthEnter(p) ==
    /\ pc[p] = "health_call"
    /\ mu = "free"
    /\ IF ~enabled
       THEN /\ connected' = FALSE
            /\ result' = [result EXCEPT ![p] = "disabled"]
            /\ pc' = [pc EXCEPT ![p] = AfterHealth(p, FALSE)]
            /\ UNCHANGED mu
       ELSE /\ mu' = p
            /\ pc' = [pc EXCEPT ![p] = "probe_send"]
            /\ UNCHANGED <<connected, result>>
    /\ UNCHANGED <<enabled, baseURL, config, httpClient, lastCheck, ticker, op,
                   arg, req, tries, lastErr, obs>>
    /\ UNCHANGED wf
    /\ Track
    /\ UNCHANGED <<manager, localQueue>>

\* Mutant of HealthSucceeded: the success is returned but connected is not
\* written.
HealthSucceeded_NotPublished(p) ==
    /\ lastCheck' \in Now
    /\ mu' = "free"
    /\ result' = [result EXCEPT ![p] = "ok"]
    /\ pc' = [pc EXCEPT ![p] = AfterHealth(p, TRUE)]
    /\ UNCHANGED <<lastErr, connected>>

\* Health lines 671-674: an attempt succeeded.
HealthSucceeded(p) ==
    /\ connected' = TRUE
    /\ lastCheck' \in Now
    /\ mu' = "free"
    /\ result' = [result EXCEPT ![p] = "ok"]
    /\ pc' = [pc EXCEPT ![p] = AfterHealth(p, TRUE)]
    /\ UNCHANGED lastErr

\* Mutant of HealthFailed: the failure is returned but connected keeps its
\* old value.
HealthFailed_NotPublished(p) ==
    /\ mu' = "free"
    /\ result' = [result EXCEPT ![p] = "unreachable"]
    /\ pc' = [pc EXCEPT ![p] = AfterHealth(p, FALSE)]
    /\ UNCHANGED <<lastCheck, connected>>

\* Health lines 677-679: the last attempt failed.
HealthFailed(p) ==
    /\ connected' = FALSE
    /\ mu' = "free"
    /\ result' = [result EXCEPT ![p] = "unreachable"]
    /\ pc' = [pc EXCEPT ![p] = AfterHealth(p, FALSE)]
    /\ UNCHANGED lastCheck

\* Health lines 661-679: the answer to one attempt. Success publishes and
\* returns; a failure is kept in lastErr and the loop goes on to the next
\* attempt, or, after the last one, publishes the failure.
HealthRecv(p) ==
    /\ pc[p] = "probe_wait"
    /\ op[p] \in {"New", "Status"}
    /\ \E ok \in BOOLEAN :
         /\ tries' = [tries EXCEPT ![p] = Append(@, ok)]
         /\ req' = [req EXCEPT ![p] = NoReq]
         /\ IF ok
            THEN HealthSucceeded(p)
            ELSE /\ lastErr' = [lastErr EXCEPT ![p] = Len(tries[p]) + 1]
                 /\ IF Len(tries[p]) + 1 < MaxAttempts
                    THEN /\ pc' = [pc EXCEPT ![p] = "sleep"]
                         /\ UNCHANGED <<connected, lastCheck, mu, result>>
                    ELSE HealthFailed(p)
    /\ UNCHANGED <<enabled, baseURL, config, httpClient, ticker, op, arg, obs>>
    /\ UNCHANGED wf
    /\ Track
    /\ UNCHANGED <<manager, localQueue>>

\* Health line 663: time.Sleep(500 * time.Millisecond) ends.
HealthSleep(p) ==
    /\ pc[p] = "sleep"
    /\ pc' = [pc EXCEPT ![p] = "probe_send"]
    /\ UNCHANGED <<client, mu, ticker, op, arg, req, tries, lastErr, result, obs>>
    /\ UNCHANGED wf
    /\ Track
    /\ UNCHANGED <<manager, localQueue>>

\* ----------------------------------------------------------- Reconfigure

\* Mutant of ReconfigureDisable: c.connected = false is left out.
ReconfigureDisable_KeepsConnected(p, cfg) ==
    /\ p = "settings" /\ Listening
    /\ pc[p] = "done"
    /\ mu = "free"
    /\ Disabling(cfg)
    /\ Begin(p, "Reconfigure", cfg)
    /\ enabled' = FALSE
    /\ result' = [result EXCEPT ![p] = "ok"]
    /\ pc' = [pc EXCEPT ![p] = "ret"]
    /\ UNCHANGED <<connected, baseURL, config, httpClient, lastCheck, mu, ticker, req, obs>>
    /\ UNCHANGED wf
    /\ Track
    /\ UNCHANGED <<manager, localQueue>>

\* Reconfigure lines 144-151 with a nil, not-enabled or host-less config:
\* under the lock, enabled and connected become false; nothing else is
\* touched and nil is returned.
ReconfigureDisable(p, cfg) ==
    /\ p = "settings" /\ Listening
    /\ pc[p] = "done"
    /\ mu = "free"
    /\ Disabling(cfg)
    /\ Begin(p, "Reconfigure", cfg)
    /\ enabled' = FALSE
    /\ connected' = FALSE
    /\ result' = [result EXCEPT ![p] = "ok"]
    /\ pc' = [pc EXCEPT ![p] = "ret"]
    /\ UNCHANGED <<baseURL, config, httpClient, lastCheck, mu, ticker, req, obs>>
    /\ UNCHANGED wf
    /\ Track
    /\ UNCHANGED <<manager, localQueue>>

\* Reconfigure lines 144-155 with a valid config: under the lock, config,
\* baseURL and enabled are written, then the probe starts with the lock held.
ReconfigureEnable(p, cfg) ==
    /\ p = "settings" /\ Listening
    /\ pc[p] = "done"
    /\ mu = "free"
    /\ ~Disabling(cfg)
    /\ Begin(p, "Reconfigure", cfg)
    /\ mu' = p
    /\ config' = cfg
    /\ baseURL' = cfg.Host
    /\ enabled' = TRUE
    /\ pc' = [pc EXCEPT ![p] = "probe_send"]
    /\ UNCHANGED <<connected, httpClient, lastCheck, ticker, req, result, obs>>
    /\ UNCHANGED wf
    /\ Track
    /\ UNCHANGED <<manager, localQueue>>

\* Reconfigure lines 158-165: the answer to the single status request is
\* published and the lock released.
ReconfigureRecv(p) ==
    /\ pc[p] = "probe_wait"
    /\ op[p] = "Reconfigure"
    /\ \E ok \in BOOLEAN :
         /\ tries' = [tries EXCEPT ![p] = Append(@, ok)]
         /\ connected' = ok
         /\ lastCheck' \in IF ok THEN Now ELSE {lastCheck}
    /\ req' = [req EXCEPT ![p] = NoReq]
    /\ mu' = "free"
    /\ result' = [result EXCEPT ![p] = "ok"]
    /\ pc' = [pc EXCEPT ![p] = "ret"]
    /\ UNCHANGED <<enabled, baseURL, config, httpClient, ticker, op, arg, lastErr, obs>>
    /\ UNCHANGED wf
    /\ Track
    /\ UNCHANGED <<manager, localQueue>>

\* ------------------------------------------- the health-check goroutine

\* Mutant of TickLock: the tick probes without taking the lock.
TickLock_Unlocked(p) ==
    /\ p = "ticker"
    /\ ticker = "on"
    /\ pc[p] = "done"
    /\ Begin(p, "Tick", NilConfig)
    /\ pc' = [pc EXCEPT ![p] = "probe_send"]
    /\ UNCHANGED <<client, mu, ticker, req, result, obs>>
    /\ UNCHANGED wf
    /\ Track
    /\ UNCHANGED <<manager, localQueue>>

\* StartPeriodicHealthCheck lines 200-201: a tick arrives and the goroutine
\* takes the lock; enabled is not looked at.
TickLock(p) ==
    /\ p = "ticker"
    /\ ticker = "on"
    /\ pc[p] = "done"
    /\ mu = "free"
    /\ Begin(p, "Tick", NilConfig)
    /\ mu' = p
    /\ pc' = [pc EXCEPT ![p] = "probe_send"]
    /\ UNCHANGED <<client, ticker, req, result, obs>>
    /\ UNCHANGED wf
    /\ Track
    /\ UNCHANGED <<manager, localQueue>>

\* Mutant of TickRecv: a failing probe ends the health-check goroutine.
TickRecv_FailureEndsTask(p) ==
    /\ pc[p] = "probe_wait"
    /\ op[p] = "Tick"
    /\ \E ok \in BOOLEAN :
         /\ tries' = [tries EXCEPT ![p] = Append(@, ok)]
         /\ connected' = ok
         /\ lastCheck' \in IF ok THEN Now ELSE {lastCheck}
         /\ ticker' = IF ok THEN ticker ELSE "off"
    /\ req' = [req EXCEPT ![p] = NoReq]
    /\ mu' = "free"
    /\ pc' = [pc EXCEPT ![p] = "done"]
    /\ UNCHANGED <<enabled, baseURL, config, httpClient, op, arg, lastErr,
                   result, obs>>
    /\ UNCHANGED wf
    /\ Track
    /\ UNCHANGED <<manager, localQueue>>

\* StartPeriodicHealthCheck lines 202-208: the answer to the single status
\* request is published, the lock released, and the loop waits for the next
\* tick.
TickRecv(p) ==
    /\ pc[p] = "probe_wait"
    /\ op[p] = "Tick"
    /\ \E ok \in BOOLEAN :
         /\ tries' = [tries EXCEPT ![p] = Append(@, ok)]
         /\ connected' = ok
         /\ lastCheck' \in IF ok THEN Now ELSE {lastCheck}
    /\ req' = [req EXCEPT ![p] = NoReq]
    /\ mu' = "free"
    /\ pc' = [pc EXCEPT ![p] = "done"]
    /\ UNCHANGED <<enabled, baseURL, config, httpClient, ticker, op, arg, lastErr,
                   result, obs>>
    /\ UNCHANGED wf
    /\ Track
    /\ UNCHANGED <<manager, localQueue>>

\* ---------------------------------------------------- ProPresenterStatus

\* handlers.go line 363: IsEnabled() under the read lock; a disabled client
\* is answered with enabled false, connected false.
StatusIsEnabled(p) ==
    /\ p \in Readers /\ Listening
    /\ pc[p] = "done"
    /\ mu = "free"
    /\ Begin(p, "Status", NilConfig)
    /\ obs' = [obs EXCEPT ![p] = [e |-> enabled, c |-> FALSE]]
    /\ pc' = [pc EXCEPT ![p] = IF enabled THEN "st_conn" ELSE "ret"]
    /\ during' = [during EXCEPT ![p] = {ConnState}]
    /\ UNCHANGED <<client, mu, ticker, req, result, wf>>
    /\ UNCHANGED <<manager, localQueue>>

\* handlers.go lines 372 and 384: IsConnected() under the read lock. The
\* first read, when false, is followed by a Health call; a failed Health is
\* answered with connected false, a successful one by a second read.
StatusIsConnected(p) ==
    /\ pc[p] \in {"st_conn", "st_conn2"}
    /\ mu = "free"
    /\ obs' = [obs EXCEPT ![p].c = connected]
    /\ pc' = [pc EXCEPT ![p] = IF pc[p] = "st_conn" /\ ~connected
                               THEN "health_call" ELSE "ret"]
    /\ UNCHANGED <<client, mu, ticker, op, arg, req, tries, lastErr, result>>
    /\ UNCHANGED wf
    /\ Track
    /\ UNCHANGED <<manager, localQueue>>

\* --------------------------------------------- strings and device data

\* strings.TrimSpace on the strings the model uses.
TrimSpace(s) ==
    CASE s = " amazing grace " -> "amazing grace"
      [] s = " live queue " -> "live queue"
      [] OTHER -> s

\* strings.ToLower on the strings the model uses.
ToLower(s) ==
    CASE s = "Amazing Grace" -> "amazing grace"
      [] s = "Live Queue" -> "live queue"
      [] s = "Other" -> "other"
      [] OTHER -> s

\* Entries of the device's library listing (LibraryItem.ID.UUID, .ID.Name).
LibraryItems ==
    { [uuid |-> "i1", name |-> "Other"],
      [uuid |-> "i2", name |-> " amazing grace "],
      [uuid |-> "i3", name |-> "Amazing Grace"] }

\* Entries of the device's playlist listing (Playlist.ID.UUID, .ID.Name).
Playlists ==
    { [uuid |-> "p1", name |-> "Other"],
      [uuid |-> "p2", name |-> " live queue "] }

\* Listings of up to two entries.
Listings(S) == {<<>>} \cup {<<a>> : a \in S} \cup {<<a, b>> : a \in S, b \in S}

Titles == {"", "Amazing Grace"}

PlaylistNames == {"", "Live Queue"}

NotFound == [uuid |-> "", name |-> ""]

\* Mutant of FirstMatch: the names are compared with their case.
FirstMatch_CaseSensitive(items, key) ==
    LET hits == {i \in 1..Len(items) : TrimSpace(items[i].name) = TrimSpace(key)}
    IN IF hits = {} THEN NotFound
       ELSE items[CHOOSE i \in hits : \A j \in hits : i <= j]

\* The first entry whose trimmed, lower-cased name equals the trimmed,
\* lower-cased key (FindSongByTitle lines 279-284, FindOrCreatePlaylist 327-332).
FirstMatch(items, key) ==
    LET hits == {i \in 1..Len(items) :
                    ToLower(TrimSpace(items[i].name)) = ToLower(TrimSpace(key))}
    IN IF hits = {} THEN NotFound
       ELSE items[CHOOSE i \in hits : \A j \in hits : i <= j]

\* Mutant of FindSongByTitle: without a match nothing is found.
FindSongByTitle_NoFallback(items, title) ==
    IF FirstMatch(items, title) # NotFound THEN FirstMatch(items, title)
    ELSE NotFound

\* FindSongByTitle lines 278-291 on the listing SearchLibrary returned.
FindSongByTitle(items, title) ==
    IF FirstMatch(items, title) # NotFound THEN FirstMatch(items, title)
    ELSE IF Len(items) > 0 THEN items[1]
    ELSE NotFound

\* --------------------------------------------------- client operations

PublicOps ==
    {"GetLibrary", "SearchLibrary", "FindSongByTitle", "GetPlaylists",
     "FindOrCreatePlaylist", "CreatePlaylist", "AddToPlaylist",
     "TriggerLibraryItem", "TriggerNextSlide", "TriggerPreviousSlide",
     "ClearLayer", "SendToLiveQueue"}

\* The methods that take a title, and those that take a playlist name.
TakesTitle == {"FindSongByTitle", "SendToLiveQueue"}

TakesName == {"FindOrCreatePlaylist", "CreatePlaylist", "SendToLiveQueue"}

\* The methods that return an error when the status code is not a success;
\* TriggerNextSlide, TriggerPreviousSlide and ClearLayer do not look at it.
ChecksStatus ==
    {"GetLibrary", "SearchLibrary", "GetPlaylists", "CreatePlaylist",
     "AddToPlaylist", "TriggerLibraryItem"}

\* The methods that decode a listing from the response body.
DecodesListing == {"GetLibrary", "SearchLibrary", "GetPlaylists"}

\* What the device may answer to a request of method m: a transport error,
\* a non-success status, a success whose body does not decode, or a success
\* with a body (for CreatePlaylist also a body such as {}, which decodes to
\* a Playlist with empty fields).
Answers(m) ==
    {[st |-> "err", items |-> <<>>], [st |-> "bad", items |-> <<>>]}
    \cup CASE m \in {"GetLibrary", "SearchLibrary"} ->
                {[st |-> "ok", items |-> l] : l \in Listings(LibraryItems)}
                    \cup {[st |-> "undecodable", items |-> <<>>]}
           [] m = "GetPlaylists" ->
                {[st |-> "ok", items |-> l] : l \in Listings(Playlists)}
                    \cup {[st |-> "undecodable", items |-> <<>>]}
           [] m = "CreatePlaylist" ->
                {[st |-> "ok", items |-> <<pl>>] : pl \in Playlists \cup {NotFound}}
                    \cup {[st |-> "undecodable", items |-> <<>>]}
           [] OTHER -> {[st |-> "ok", items |-> <<>>]}

\* Mutant of MethodResult: CreatePlaylist returns the decoding error.
MethodResult_MissingBodyIsError(m, st) ==
    CASE st = "err" -> "transport"
      [] st = "bad" -> IF m \in ChecksStatus THEN "status" ELSE "ok"
      [] st = "undecodable" ->
            IF m \in DecodesListing \/ m = "CreatePlaylist" THEN "decode" ELSE "ok"
      [] OTHER -> "ok"

\* What method m makes of the answer.
MethodResult(m, st) ==
    CASE st = "err" -> "transport"
      [] st = "bad" -> IF m \in ChecksStatus THEN "status" ELSE "ok"
      [] st = "undecodable" ->
            IF m \in DecodesListing THEN "decode"
            ELSE IF m = "CreatePlaylist" THEN "relist" ELSE "ok"
      [] OTHER -> "ok"

\* The method a public operation starts with.
FirstMethod(o) ==
    CASE o = "FindSongByTitle" -> "SearchLibrary"
      [] o = "FindOrCreatePlaylist" -> "GetPlaylists"
      [] OTHER -> o

\* The method a step of SendToLiveQueue starts with: FindSongByTitle,
\* FindOrCreatePlaylist, AddToPlaylist.
StepMethod(step) ==
    CASE step = 1 -> "SearchLibrary"
      [] step = 2 -> "GetPlaylists"
      [] OTHER -> "AddToPlaylist"

\* The methods that build their request with http.NewRequest from a URL
\* that contains an argument of the caller (client.go 375-391, 414-419,
\* 471-476).
BuildsRequest == {"AddToPlaylist", "TriggerLibraryItem", "ClearLayer"}

\* The handler goroutine calls a public operation of the client.
Call(p, o, title, name) ==
    /\ p = "queue" /\ Listening
    /\ pc[p] = "done"
    /\ o \notin TakesTitle => title = ""
    /\ o \notin TakesName => name = ""
    /\ Begin(p, o, NilConfig)
    /\ \E u \in IF o \in BuildsRequest THEN {"ok", "malformed"} ELSE {"ok"} :
         wf' = [WfIdle EXCEPT !.meth = FirstMethod(o), !.title = title,
                              !.name = name, !.path = u]
    /\ pc' = [pc EXCEPT ![p] = IF o = "SendToLiveQueue" THEN "sq_enter" ELSE "m_check"]
    /\ UNCHANGED <<client, mu, ticker, req, result, obs>>
    /\ Track
    /\ UNCHANGED <<manager, localQueue>>

\* The operation returns r to the handler.
Finish(p, r, w) ==
    /\ result' = [result EXCEPT ![p] = r]
    /\ pc' = [pc EXCEPT ![p] = "ret"]
    /\ wf' = [w EXCEPT !.ans = NoAnswer]

\* The operation goes on at label l.
Goto(p, l, w) ==
    /\ pc' = [pc EXCEPT ![p] = l]
    /\ wf' = [w EXCEPT !.ans = NoAnswer]
    /\ UNCHANGED result

\* Mutant of StepFailed: after the third failure the workflow goes on with
\* the next step.
StepFailed_GoesOn(p, tag) ==
    IF wf.attempt + 1 < StepAttempts
    THEN Goto(p, "sq_sleep", [wf EXCEPT !.attempt = @ + 1])
    ELSE IF wf.step < 3
         THEN Goto(p, "m_check",
                   [wf EXCEPT !.step = @ + 1, !.attempt = 0, !.depth = 0,
                              !.meth = StepMethod(wf.step + 1)])
         ELSE Finish(p, tag, [wf EXCEPT !.attempt = @ + 1])

\* SendToLiveQueue: an attempt of the current step failed (lines 607-618,
\* 621-632, 635-645): sleep and try again, or give up after the third.
StepFailed(p, tag) ==
    IF wf.attempt + 1 < StepAttempts
    THEN Goto(p, "sq_sleep", [wf EXCEPT !.attempt = @ + 1])
    ELSE Finish(p, tag, [wf EXCEPT !.attempt = @ + 1])

\* Mutant of StepSucceeded: the item's UUID is returned once the playlist
\* is resolved, without the add.
StepSucceeded_SkipsAdd(p, w) ==
    IF w.step < 2
    THEN Goto(p, "m_check",
              [w EXCEPT !.step = @ + 1, !.attempt = 0, !.depth = 0,
                        !.meth = StepMethod(w.step + 1)])
    ELSE Finish(p, w.item, w)

\* Mutant of StepSucceeded: the next step goes on with the attempt counter
\* of the step before.
StepSucceeded_SharedBudget(p, w) ==
    IF w.step < 3
    THEN Goto(p, "m_check",
              [w EXCEPT !.step = @ + 1, !.depth = 0,
                        !.meth = StepMethod(w.step + 1)])
    ELSE Finish(p, w.item, w)

\* SendToLiveQueue: the current step succeeded: the next step starts with
\* its own attempt counter; after the add, the item's UUID is returned.
StepSucceeded(p, w) ==
    IF w.step < 3
    THEN Goto(p, "m_check",
              [w EXCEPT !.step = @ + 1, !.attempt = 0, !.depth = 0,
                        !.meth = StepMethod(w.step + 1)])
    ELSE Finish(p, w.item, w)

\* CreatePlaylist calls FindOrCreatePlaylist as its last statement, which
\* may call CreatePlaylist as its last statement: the depth of this
\* recursion is counted up to MaxDepth and no further.
Deeper(d) == IF d < MaxDepth THEN d + 1 ELSE d

\* FindSongByTitle returns (uuid, r) to its caller.
FindSongByTitleReturn(p, r, uuid) ==
    IF op[p] = "SendToLiveQueue"
    THEN IF r = "ok" THEN StepSucceeded(p, [wf EXCEPT !.item = uuid])
         ELSE StepFailed(p, "song_not_found")
    ELSE Finish(p, r, [wf EXCEPT !.item = uuid])

\* FindOrCreatePlaylist or CreatePlaylist returns (uuid, r) to its caller.
PlaylistReturn(p, r, uuid) ==
    IF op[p] = "SendToLiveQueue"
    THEN IF r = "ok" THEN StepSucceeded(p, [wf EXCEPT !.playlist = uuid])
         ELSE StepFailed(p, "playlist_failed")
    ELSE Finish(p, r, [wf EXCEPT !.playlist = uuid])

\* strings.EqualFold on the strings the model uses.
EqualFold(a, b) == ToLower(a) = ToLower(b)

\* ProPresenterSendToQueue lines 516-526: the first playlist of the listing
\* whose name equals the wanted name under case folding.
FoldMatch(items, key) ==
    LET hits == {i \in 1..Len(items) : EqualFold(items[i].name, key)}
    IN IF hits = {} THEN NotFound
       ELSE items[CHOOSE i \in hits : \A j \in hits : i <= j]

\* settings.ProPresenterPlaylistUUID when it was never set.
ZeroUUID == "00000000-0000-0000-0000-000000000000"

\* ProPresenterSendToQueue lines 500 and 513: the UUID names no playlist.
Unset(uuid) == uuid = "" \/ uuid = ZeroUUID

\* ProPresenterSendToQueue lines 514-540: a call of the handler returns r.
\* After GetPlaylists the UUID of a matching playlist is taken, and
\* AddToPlaylist is called in every case; its error is answered with 503
\* "Failed to sync with ProPresenter".
SendToQueueReturn(p, r, items) ==
    IF wf.meth = "GetPlaylists"
    THEN Goto(p, "m_check",
              [wf EXCEPT !.meth = "AddToPlaylist",
                         !.playlist = IF r = "ok" /\ FoldMatch(items, wf.name) # NotFound
                                      THEN FoldMatch(items, wf.name).uuid ELSE @])
    ELSE Finish(p, IF r = "ok" THEN "ok" ELSE "sync_failed", wf)

\* The method in progress returns r (and, with "ok", the decoded items):
\* what its caller does next.
MethodReturn(p, r, items) ==
    CASE op[p] = "ProPresenterSendToQueue" -> SendToQueueReturn(p, r, items)
      [] wf.meth = "SearchLibrary" /\ op[p] # "SearchLibrary" ->
            IF r # "ok" THEN FindSongByTitleReturn(p, r, "")
            ELSE IF FindSongByTitle(items, wf.title) = NotFound
                 THEN FindSongByTitleReturn(p, "notfound", "")
                 ELSE FindSongByTitleReturn(p, "ok", FindSongByTitle(items, wf.title).uuid)
      [] wf.meth = "GetPlaylists" /\ op[p] # "GetPlaylists" ->
            IF r # "ok" THEN PlaylistReturn(p, r, "")
            ELSE IF FirstMatch(items, wf.name) # NotFound
                 THEN PlaylistReturn(p, "ok", FirstMatch(items, wf.name).uuid)
                 ELSE Goto(p, "m_check", [wf EXCEPT !.meth = "CreatePlaylist"])
      [] wf.meth = "CreatePlaylist" ->
            IF r = "relist"
            THEN Goto(p, "m_check", [wf EXCEPT !.meth = "GetPlaylists", !.depth = Deeper(@)])
            ELSE PlaylistReturn(p, r, IF r = "ok" THEN items[1].uuid ELSE "")
      [] wf.meth = "AddToPlaylist" /\ op[p] = "SendToLiveQueue" ->
            IF r = "ok" THEN StepSucceeded(p, wf) ELSE StepFailed(p, "add_failed")
      [] OTHER -> Finish(p, r, wf)

\* SendToLiveQueue lines 590-600: the enabled test, the default playlist
\* name and the title test.
SendToLiveQueueEnter(p) ==
    /\ pc[p] = "sq_enter"
    /\ IF ~enabled THEN Finish(p, "disabled", wf)
       ELSE IF wf.title = "" THEN Finish(p, "title_required", wf)
       ELSE Goto(p, "m_check",
                 [wf EXCEPT !.name = IF wf.name = "" THEN "Live Queue" ELSE wf.name,
                            !.step = 1, !.meth = StepMethod(1)])
    /\ UNCHANGED <<client, mu, ticker, op, arg, req, tries, lastErr, obs>>
    /\ Track
    /\ UNCHANGED <<manager, localQueue>>

\* SendToLiveQueue lines 608-610, 622-624, 636-638: the sleep before the
\* next attempt of the step ends.
SendToLiveQueueSleep(p) ==
    /\ pc[p] = "sq_sleep"
    /\ Goto(p, "m_check", [wf EXCEPT !.meth = StepMethod(wf.step), !.depth = 0])
    /\ UNCHANGED <<client, mu, ticker, op, arg, req, tries, lastErr, obs>>
    /\ Track
    /\ UNCHANGED <<manager, localQueue>>

\* The first statement of every method that talks to the device:
\* if !c.enabled { return ..."not enabled" }, read without the lock.
CheckEnabled(p) ==
    /\ pc[p] = "m_check"
    /\ IF ~enabled THEN MethodReturn(p, "disabled", <<>>)
       ELSE Goto(p, "m_send", wf)
    /\ UNCHANGED <<client, mu, ticker, op, arg, req, tries, lastErr, obs>>
    /\ Track
    /\ UNCHANGED <<manager, localQueue>>

\* The method issues its request to c.baseURL through c.httpClient (Get,
\* Post or Do); with a nil httpClient the call panics. A method that
\* builds the request with http.NewRequest returns the error of
\* NewRequest, and sends nothing, when the URL does not parse.
Do(p) ==
    /\ pc[p] = "m_send"
    /\ IF wf.meth \in BuildsRequest /\ wf.path = "malformed"
       THEN /\ MethodReturn(p, "request", <<>>)
            /\ UNCHANGED req
       ELSE IF httpClient
       THEN /\ req' = [req EXCEPT ![p] = [kind |-> wf.meth, url |-> baseURL, en |-> enabled]]
            /\ Goto(p, "m_wait",
                    [wf EXCEPT !.first = IF @ = "-" THEN baseURL ELSE @,
                               !.sent = @ \cup {wf.meth},
                               !.adds = IF wf.meth = "AddToPlaylist" THEN @ + 1 ELSE @,
                               !.body = IF wf.meth = "AddToPlaylist"
                                        THEN <<wf.playlist, wf.item>> ELSE @])
       ELSE /\ Finish(p, "panic", wf)
            /\ UNCHANGED req
    /\ UNCHANGED <<client, mu, ticker, op, arg, tries, lastErr, obs>>
    /\ Track
    /\ UNCHANGED <<manager, localQueue>>

\* Mutant of Decode: an answer that makes the method fail is recorded as
\* connected = false.
Decode_MarksDisconnected(p) ==
    /\ pc[p] = "m_got"
    /\ MethodReturn(p, MethodResult(wf.meth, wf.ans.st), wf.ans.items)
    /\ connected' = (connected /\ MethodResult(wf.meth, wf.ans.st) \in {"ok", "relist"})
    /\ UNCHANGED <<enabled, baseURL, config, httpClient, lastCheck, mu, ticker,
                   op, arg, req, tries, lastErr, obs>>
    /\ Track
    /\ UNCHANGED <<manager, localQueue>>

\* The method looks at the response (the transport error, the status code,
\* the decoded body) and returns.
Decode(p) ==
    /\ pc[p] = "m_got"
    /\ MethodReturn(p, MethodResult(wf.meth, wf.ans.st), wf.ans.items)
    /\ UNCHANGED <<client, mu, ticker, op, arg, req, tries, lastErr, obs>>
    /\ Track
    /\ UNCHANGED <<manager, localQueue>>

\* The device's answer to the request arrives.
Response(p) ==
    /\ pc[p] = "m_wait"
    /\ \E ans \in Answers(wf.meth) :
         wf' = [wf EXCEPT !.ans = ans,
                          !.okAdds = IF wf.meth = "AddToPlaylist"
                                        /\ MethodResult(wf.meth, ans.st) = "ok"
                                     THEN @ + 1 ELSE @]
    /\ pc' = [pc EXCEPT ![p] = "m_got"]
    /\ req' = [req EXCEPT ![p] = NoReq]
    /\ UNCHANGED <<client, mu, ticker, op, arg, tries, lastErr, result, obs>>
    /\ Track
    /\ UNCHANGED <<manager, localQueue>>

\* ------------------------------------------------------ request handlers

\* What the songs table and the settings row hold and the request carries
\* when ProPresenterSendToQueue runs: song.ProUUID, the two playlist UUIDs
\* of the settings, and the playlist names of the request and the settings.
ProUUIDs == {"", "i1"}

SettingsPlaylistUUIDs == {"", ZeroUUID, "p1"}

LivePlaylistUUIDs == {"", "lv"}

RequestNames == {"", " live queue "}

SettingsNames == {"", "Other"}

\* ProPresenterSendToQueue lines 499-502.
SettingsUUID(ppu, live) == IF Unset(ppu) THEN live ELSE ppu

\* ProPresenterSendToQueue lines 504-510.
SyncPlaylistName(rname, sname) ==
    IF rname # "" THEN rname
    ELSE IF sname # "" THEN sname ELSE "Live Queue"

\* Handler.ProPresenterSendToQueue up to its first call of the client: the
\* IsEnabled test under the read lock, the song's pro_uuid, the playlist
\* UUID and name from the settings; then GetPlaylists when the UUID is
\* unset, AddToPlaylist otherwise.
ProPresenterSendToQueue(p, pro, ppu, live, rname, sname) ==
    /\ p = "queue" /\ Listening
    /\ pc[p] = "done"
    /\ mu = "free"
    /\ Begin(p, "ProPresenterSendToQueue", NilConfig)
    /\ IF ~enabled THEN Finish(p, "disabled", WfIdle)
       ELSE IF pro = "" THEN Finish(p, "no_pro_uuid", WfIdle)
       ELSE Goto(p, "m_check",
                 [WfIdle EXCEPT
                    !.item = pro,
                    !.playlist = SettingsUUID(ppu, live),
                    !.name = SyncPlaylistName(rname, sname),
                    !.meth = IF Unset(SettingsUUID(ppu, live))
                                /\ SyncPlaylistName(rname, sname) # ""
                             THEN "GetPlaylists" ELSE "AddToPlaylist"])
    /\ UNCHANGED <<client, mu, ticker, req, obs>>
    /\ Track
    /\ UNCHANGED <<manager, localQueue>>

\* The handler has answered its request; the goroutine serves the next one
\* with fresh locals.
Respond(p) ==
    /\ pc[p] = "ret"
    /\ pc' = [pc EXCEPT ![p] = "done"]
    /\ Begin(p, "none", NilConfig)
    /\ result' = [result EXCEPT ![p] = "none"]
    /\ obs' = [q \in Readers |-> IF q = p THEN [e |-> FALSE, c |-> FALSE] ELSE obs[q]]
    /\ during' = [q \in Readers |-> IF q = p THEN {} ELSE during[q]]
    /\ wf' = IF p = "queue" THEN WfIdle ELSE wf
    /\ UNCHANGED <<client, mu, ticker, req>>
    /\ UNCHANGED <<manager, localQueue>>

\* -------------------------------------------------------- specifications

Next ==
    \/ \E p \in Procs : NewPublish(p)
    \/ \E p \in Procs : StartPeriodicHealthCheck(p)
    \/ \E p \in Procs : Listen(p)
    \/ \E p \in Procs : healthCheckLockedSend(p)
    \/ \E p \in Procs : HealthEnter(p)
    \/ \E p \in Procs : HealthRecv(p)
    \/ \E p \in Procs : HealthSleep(p)
    \/ \E p \in Procs, cfg \in Config : ReconfigureDisable(p, cfg)
    \/ \E p \in Procs, cfg \in Config : ReconfigureEnable(p, cfg)
    \/ \E p \in Procs : ReconfigureRecv(p)
    \/ \E p \in Procs : TickLock(p)
    \/ \E p \in Procs : TickRecv(p)
    \/ \E p \in Procs : StatusIsEnabled(p)
    \/ \E p \in Procs : StatusIsConnected(p)
    \/ \E p \in Procs : Respond(p)

Spec == Init /\ [][Next]_vars

\* The configurations UpdateSettings hands to Reconfigure while operations
\* run: nil (the integration switched off) and another host.
SettingsSaved ==
    {NilConfig, [nil |-> FALSE, Host |-> "h2", Enabled |-> TRUE, PlaylistID |-> ""]}

\* The library, playlist and command operations of one handler goroutine
\* next to New and a handler that reconfigures the client.
NextOps ==
    \/ \E p \in Procs : NewPublish(p)
    \/ \E p \in Procs : Listen(p)
    \/ \E p \in Procs : healthCheckLockedSend(p)
    \/ \E p \in Procs : HealthEnter(p)
    \/ \E p \in Procs : HealthRecv(p)
    \/ \E p \in Procs : HealthSleep(p)
    \/ \E p \in Procs, cfg \in SettingsSaved : ReconfigureDisable(p, cfg)
    \/ \E p \in Procs, cfg \in SettingsSaved : ReconfigureEnable(p, cfg)
    \/ \E p \in Procs : ReconfigureRecv(p)
    \/ \E p \in Procs, o \in PublicOps, t \in Titles, n \in PlaylistNames : Call(p, o, t, n)
    \/ \E p \in Procs : SendToLiveQueueEnter(p)
    \/ \E p \in Procs : SendToLiveQueueSleep(p)
    \/ \E p \in Procs : CheckEnabled(p)
    \/ \E p \in Procs : Do(p)
    \/ \E p \in Procs : Response(p)
    \/ \E p \in Procs : Decode(p)
    \/ \E p \in Procs : Respond(p)

SpecOps == Init /\ [][NextOps]_vars

\* The library, playlist and command operations called one after another by
\* a handler on the client main has built, with no reconfiguration.
NextCalls ==
    \/ \E p \in Procs : NewPublish(p)
    \/ \E p \in Procs : Listen(p)
    \/ \E p \in Procs : healthCheckLockedSend(p)
    \/ \E p \in Procs : HealthEnter(p)
    \/ \E p \in Procs : HealthRecv(p)
    \/ \E p \in Procs : HealthSleep(p)
    \/ \E p \in Procs, o \in PublicOps, t \in Titles, n \in PlaylistNames : Call(p, o, t, n)
    \/ \E p \in Procs : SendToLiveQueueEnter(p)
    \/ \E p \in Procs : SendToLiveQueueSleep(p)
    \/ \E p \in Procs : CheckEnabled(p)
    \/ \E p \in Procs : Do(p)
    \/ \E p \in Procs : Response(p)
    \/ \E p \in Procs : Decode(p)
    \/ \E p \in Procs : Respond(p)

SpecCalls == Init /\ [][NextCalls]_vars

\* A step of the operation the handler goroutine p is in.
Runs(p) ==
    \/ SendToLiveQueueEnter(p)
    \/ SendToLiveQueueSleep(p)
    \/ CheckEnabled(p)
    \/ Do(p)
    \/ Response(p)
    \/ Decode(p)

\* The goroutine in an operation is scheduled again and again, and every
\* request is answered (http.Client.Timeout, 5 s, ends a request the device
\* leaves open).
FairCalls == \A p \in Procs : WF_vars(Runs(p))

SpecCallsFair == Init /\ [][NextCalls]_vars /\ FairCalls

\* The server with the queue sync of the request layer as its only caller
\* of the client.
NextSync ==
    \/ \E p \in Procs : NewPublish(p)
    \/ \E p \in Procs : Listen(p)
    \/ \E p \in Procs : healthCheckLockedSend(p)
    \/ \E p \in Procs : HealthEnter(p)
    \/ \E p \in Procs : HealthRecv(p)
    \/ \E p \in Procs : HealthSleep(p)
    \/ \E p \in Procs, pro \in ProUUIDs, ppu \in SettingsPlaylistUUIDs,
          live \in LivePlaylistUUIDs, rname \in RequestNames, sname \in SettingsNames :
            ProPresenterSendToQueue(p, pro, ppu, live, rname, sname)
    \/ \E p \in Procs : CheckEnabled(p)
    \/ \E p \in Procs : Do(p)
    \/ \E p \in Procs : Response(p)
    \/ \E p \in Procs : Decode(p)
    \/ \E p \in Procs : Respond(p)

SpecSync == Init /\ [][NextSync]_vars

\* The client with no caller asking for the status: main, the handler that
\* reconfigures, and the health-check goroutine.
NextBackground ==
    \/ \E p \in Procs : NewPublish(p)
    \/ \E p \in Procs : StartPeriodicHealthCheck(p)
    \/ \E p \in Procs : Listen(p)
    \/ \E p \in Procs : healthCheckLockedSend(p)
    \/ \E p \in Procs : HealthEnter(p)
    \/ \E p \in Procs : HealthRecv(p)
    \/ \E p \in Procs : HealthSleep(p)
    \/ \E p \in Procs, cfg \in Config : ReconfigureDisable(p, cfg)
    \/ \E p \in Procs, cfg \in Config : ReconfigureEnable(p, cfg)
    \/ \E p \in Procs : ReconfigureRecv(p)
    \/ \E p \in Procs : TickLock(p)
    \/ \E p \in Procs : TickRecv(p)
    \/ \E p \in Procs : Respond(p)

\* Scheduling: a goroutine that can take its next step takes it (requests
\* are answered or time out, sleeps end, main runs on to Listen), and the
\* health-check goroutine, whose ticker fires every interval, gets the lock
\* when it is released again and again (sync.RWMutex does not starve a
\* writer). Nothing obliges a handler to be called.
Fairness ==
    /\ \A p \in Procs :
          /\ WF_vars(NewPublish(p))
          /\ WF_vars(StartPeriodicHealthCheck(p) \/ Listen(p))
          /\ WF_vars(healthCheckLockedSend(p))
          /\ WF_vars(HealthEnter(p))
          /\ WF_vars(HealthRecv(p))
          /\ WF_vars(HealthSleep(p))
          /\ WF_vars(ReconfigureRecv(p))
          /\ WF_vars(TickRecv(p))
          /\ WF_vars(Respond(p))
    /\ SF_vars(TickLock("ticker"))

SpecBackground == Init /\ [][NextBackground]_vars /\ Fairness

\* ---------------------------------------------------------- backup manager

\* The backup type each goroutine passes to Manager.CreateBackup.
BackupType(g) ==
    IF g = "threshold" THEN "edit-threshold"
    ELSE IF g = "admin" THEN "manual" ELSE "daily"

\* Handler.CreateSong: the row is inserted, then the goroutine that checks
\* the edit threshold is started.  Requests are served one after another,
\* each after the goroutine of the one before has come to rest.
CreateSong ==
    /\ bpc["threshold"] = "idle"
    /\ edits < MaxEdits
    /\ songs' = songs + 1
    /\ edits' = edits + 1
    /\ bpc' = [bpc EXCEPT !["threshold"] = "count"]
    /\ UNCHANGED <<lastEditCount, bmu, count, backups>>
    /\ UNCHANGED <<integration, localQueue>>

\* Handler.UpdateSong: a row is rewritten, then the same goroutine is started.
UpdateSong ==
    /\ bpc["threshold"] = "idle"
    /\ edits < MaxEdits
    /\ songs > 0
    /\ edits' = edits + 1
    /\ bpc' = [bpc EXCEPT !["threshold"] = "count"]
    /\ UNCHANGED <<songs, lastEditCount, bmu, count, backups>>
    /\ UNCHANGED <<integration, localQueue>>

\* Handler.DeleteSong: a row is removed; no threshold check follows.
DeleteSong ==
    /\ bpc["threshold"] = "idle"
    /\ songs > 0
    /\ songs' = songs - 1
    /\ UNCHANGED <<edits, lastEditCount, bmu, bpc, count, backups>>
    /\ UNCHANGED <<integration, localQueue>>

\* count, _ := h.db.GetEditCount(): SELECT COUNT(*) FROM songs, or 0 with
\* the error dropped when the query fails.
GetEditCount(g) ==
    /\ bpc[g] = "count"
    /\ count' \in {songs, 0}
    /\ bpc' = [bpc EXCEPT ![g] = "check"]
    /\ UNCHANGED <<songs, edits, lastEditCount, bmu, backups>>
    /\ UNCHANGED <<integration, localQueue>>

\* Manager.CheckEditThreshold up to its call of CreateBackup: the lock is
\* taken; below the threshold it is released again and nil is returned (the
\* goroutine ends and its count with it), at the threshold CreateBackup is
\* called with the lock still held.
CheckEditThreshold(g) ==
    /\ bpc[g] = "check"
    /\ bmu = "free"
    /\ IF count - lastEditCount >= editsThreshold
       THEN /\ bmu' = g
            /\ bpc' = [bpc EXCEPT ![g] = "backup"]
            /\ count' = count
       ELSE /\ bmu' = "free"
            /\ bpc' = [bpc EXCEPT ![g] = "idle"]
            /\ count' = 0
    /\ UNCHANGED <<songs, edits, lastEditCount, backups>>
    /\ UNCHANGED <<integration, localQueue>>

\* Handler.CreateBackup: POST /api/admin/backups calls CreateBackup("manual").
HandlerCreateBackup(g) ==
    /\ g = "admin"
    /\ bpc[g] = "idle"
    /\ backups["manual"].made + backups["manual"].failed < MaxManual
    /\ bpc' = [bpc EXCEPT ![g] = "backup"]
    /\ UNCHANGED <<songs, edits, lastEditCount, bmu, count, backups>>
    /\ UNCHANGED <<integration, localQueue>>

\* Manager.scheduleDailyBackup: the goroutine sleeps until 2 AM, calls
\* CreateBackup("daily"), and starts over.
scheduleDailyBackup(g) ==
    /\ g = "daily"
    /\ bpc[g] = "idle"
    /\ backups["daily"].made + backups["daily"].failed < MaxDaily
    /\ bpc' = [bpc EXCEPT ![g] = "backup"]
    /\ UNCHANGED <<songs, edits, lastEditCount, bmu, count, backups>>
    /\ UNCHANGED <<integration, localQueue>>

\* Manager.CreateBackup, and for the threshold goroutine the rest of
\* CheckEditThreshold after it: m.mu.Lock() waits until the mutex is free
\* (sync.Mutex is not reentrant); the dump is made or fails; on success
\* CheckEditThreshold stores the count; the deferred unlocks run.
CreateBackup(g) ==
    /\ bpc[g] = "backup"
    /\ bmu = "free"
    /\ \E ok \in BOOLEAN :
         /\ backups' = [backups EXCEPT ![BackupType(g)] =
                           IF ok THEN [@ EXCEPT !.made = @ + 1]
                                 ELSE [@ EXCEPT !.failed = @ + 1]]
         /\ lastEditCount' = IF g = "threshold" /\ ok THEN count ELSE lastEditCount
    /\ bmu' = "free"
    /\ bpc' = [bpc EXCEPT ![g] = "idle"]
    /\ count' = IF g = "threshold" THEN 0 ELSE count
    /\ UNCHANGED <<songs, edits>>
    /\ UNCHANGED <<integration, localQueue>>

NextBackup ==
    \/ CreateSong
    \/ UpdateSong
    \/ DeleteSong
    \/ GetEditCount("threshold")
    \/ CheckEditThreshold("threshold")
    \/ HandlerCreateBackup("admin")
    \/ scheduleDailyBackup("daily")
    \/ \E g \in Workers : CreateBackup(g)

\* The server with the integration switched off: songs are edited and
\* backups are made.
InitBackup == Init /\ config = NilConfig

SpecBackup == InitBackup /\ [][NextBackup]_vars

\* ------------------------------------------------------- local song queue

\* The migration that creates queue_items is not among the files: the table
\* has a UNIQUE constraint on song_id, or it has none.
CreateSchema(u) ==
    /\ schema = "unknown"
    /\ schema' = u
    /\ UNCHANGED <<rows, nextId, qpc, qloc, qres>>
    /\ UNCHANGED <<integration, manager>>

\* A call returns r; its locals are gone.
QueueReturn(c, r) ==
    /\ qpc' = [qpc EXCEPT ![c] = "idle"]
    /\ qres' = [qres EXCEPT ![c] = r]
    /\ qloc' = [qloc EXCEPT ![c] = NoLocals]

\* DB.AddToQueue lines 394-401: SELECT EXISTS(... WHERE song_id = $1); a
\* song found in the queue ends the call with "song already in queue".
AddToQueue(c, s) ==
    /\ schema # "unknown"
    /\ qpc[c] = "idle"
    /\ nextId <= MaxQueued
    /\ IF \E r \in rows : r.song = s
       THEN QueueReturn(c, "already")
       ELSE /\ qloc' = [qloc EXCEPT ![c] = [NoLocals EXCEPT !.song = s]]
            /\ qpc' = [qpc EXCEPT ![c] = "add_max"]
            /\ qres' = [qres EXCEPT ![c] = "none"]
    /\ UNCHANGED <<rows, nextId, schema>>
    /\ UNCHANGED <<integration, manager>>

\* The largest position in the table, 0 for MAX of no rows (NULL).
MaxPosition == IF rows = {} THEN 0
               ELSE CHOOSE m \in {r.pos : r \in rows} : \A r \in rows : r.pos <= m

\* DB.AddToQueue lines 403-413: SELECT MAX(position); nextPosition is 1 or
\* the maximum plus one.
AddToQueueMax(c) ==
    /\ qpc[c] = "add_max"
    /\ qloc' = [qloc EXCEPT ![c].pos = MaxPosition + 1]
    /\ qpc' = [qpc EXCEPT ![c] = "add_insert"]
    /\ UNCHANGED <<rows, nextId, schema, qres>>
    /\ UNCHANGED <<integration, manager>>

\* DB.AddToQueue lines 415-428: INSERT INTO queue_items (song_id, position);
\* a unique constraint on song_id rejects a second row of the song and the
\* call returns "error adding to queue".
AddToQueueInsert(c) ==
    /\ qpc[c] = "add_insert"
    /\ IF schema = "unique_song" /\ \E r \in rows : r.song = qloc[c].song
       THEN /\ QueueReturn(c, "error")
            /\ UNCHANGED <<rows, nextId>>
       ELSE /\ rows' = rows \cup {[id |-> nextId, song |-> qloc[c].song,
                                  pos |-> qloc[c].pos]}
            /\ nextId' = nextId + 1
            /\ QueueReturn(c, "ok")
    /\ UNCHANGED schema
    /\ UNCHANGED <<integration, manager>>

\* DB.RemoveFromQueue is called with a queue item id.
RemoveFromQueue(c, id) ==
    /\ schema # "unknown"
    /\ qpc[c] = "idle"
    /\ qloc' = [qloc EXCEPT ![c] = [NoLocals EXCEPT !.id = id]]
    /\ qpc' = [qpc EXCEPT ![c] = "rem_select"]
    /\ qres' = [qres EXCEPT ![c] = "none"]
    /\ UNCHANGED <<rows, nextId, schema>>
    /\ UNCHANGED <<integration, manager>>

\* DB.RemoveFromQueueBySongID lines 478-489: SELECT id, position WHERE
\* song_id = $1 gives a row of the song, or "song not in queue"; then
\* RemoveFromQueue(id).
RemoveFromQueueBySongID(c, s) ==
    /\ schema # "unknown"
    /\ qpc[c] = "idle"
    /\ IF \E r \in rows : r.song = s
       THEN \E r \in {x \in rows : x.song = s} :
              /\ qloc' = [qloc EXCEPT ![c] = [song |-> s, id |-> r.id, pos |-> 0]]
              /\ qpc' = [qpc EXCEPT ![c] = "rem_select"]
              /\ qres' = [qres EXCEPT ![c] = "none"]
       ELSE QueueReturn(c, "notfound")
    /\ UNCHANGED <<rows, nextId, schema>>
    /\ UNCHANGED <<integration, manager>>

\* DB.RemoveFromQueue lines 443-451: SELECT position WHERE id = $1.
RemoveFromQueueSelect(c) ==
    /\ qpc[c] = "rem_select"
    /\ IF \E r \in rows : r.id = qloc[c].id
       THEN /\ qloc' = [qloc EXCEPT ![c].pos =
                          (CHOOSE r \in rows : r.id = qloc[c].id).pos]
            /\ qpc' = [qpc EXCEPT ![c] = "rem_delete"]
            /\ UNCHANGED qres
       ELSE QueueReturn(c, "notfound")
    /\ UNCHANGED <<rows, nextId, schema>>
    /\ UNCHANGED <<integration, manager>>

\* DB.RemoveFromQueue lines 453-465: DELETE WHERE id = $1; no row affected
\* ends the call with "queue item not found".
RemoveFromQueueDelete(c) ==
    /\ qpc[c] = "rem_delete"
    /\ IF \E r \in rows : r.id = qloc[c].id
       THEN /\ rows' = {r \in rows : r.id # qloc[c].id}
            /\ qpc' = [qpc EXCEPT ![c] = "rem_shift"]
            /\ UNCHANGED <<qres, qloc>>
       ELSE /\ QueueReturn(c, "notfound")
            /\ UNCHANGED rows
    /\ UNCHANGED <<nextId, schema>>
    /\ UNCHANGED <<integration, manager>>

\* DB.RemoveFromQueue lines 467-473: UPDATE queue_items SET position =
\* position - 1 WHERE position > $1.
RemoveFromQueueShift(c) ==
    /\ qpc[c] = "rem_shift"
    /\ rows' = {IF r.pos > qloc[c].pos THEN [r EXCEPT !.pos = @ - 1] ELSE r : r \in rows}
    /\ QueueReturn(c, "ok")
    /\ UNCHANGED <<nextId, schema>>
    /\ UNCHANGED <<integration, manager>>

\* DB.ClearQueue: DELETE FROM queue_items.
ClearQueue(c) ==
    /\ schema # "unknown"
    /\ qpc[c] = "idle"
    /\ rows' = {}
    /\ QueueReturn(c, "ok")
    /\ UNCHANGED <<nextId, schema>>
    /\ UNCHANGED <<integration, manager>>

NextQueue ==
    \/ \E u \in {"unique_song", "none"} : CreateSchema(u)
    \/ \E c \in Callers, s \in QueueSongs : AddToQueue(c, s)
    \/ \E c \in Callers : AddToQueueMax(c)
    \/ \E c \in Callers : AddToQueueInsert(c)
    \/ \E c \in Callers, id \in 1..MaxQueued : RemoveFromQueue(c, id)
    \/ \E c \in Callers, s \in QueueSongs : RemoveFromQueueBySongID(c, s)
    \/ \E c \in Callers : RemoveFromQueueSelect(c)
    \/ \E c \in Callers : RemoveFromQueueDelete(c)
    \/ \E c \in Callers : RemoveFromQueueShift(c)
    \/ \E c \in Callers : ClearQueue(c)

SpecQueue == InitBackup /\ [][NextQueue]_vars

\* The queue operations with one caller: every call runs from its first
\* statement to its last before the next call starts.
NextQueueSerial ==
    \/ \E u \in {"unique_song", "none"} : CreateSchema(u)
    \/ \E s \in QueueSongs : AddToQueue("a", s)
    \/ AddToQueueMax("a")
    \/ AddToQueueInsert("a")
    \/ \E id \in 1..MaxQueued : RemoveFromQueue("a", id)
    \/ \E s \in QueueSongs : RemoveFromQueueBySongID("a", s)
    \/ RemoveFromQueueSelect("a")
    \/ RemoveFromQueueDelete("a")
    \/ RemoveFromQueueShift("a")
    \/ ClearQueue("a")

SpecQueueSerial == InitBackup /\ [][NextQueueSerial]_vars

\* ------------------------------------------------------------------ claims

\* A step taken by goroutine p.
Steps(p) == pc'[p] # pc[p]

\* The step in which goroutine p returns from the operation it is in.
Returns(p, o) == op'[p] = o /\ pc[p] # "ret" /\ pc'[p] = "ret"

\* The step in which the Health call of p releases the lock and returns
\* (not by a panic).
HealthReturns(p) ==
    /\ op[p] \in {"New", "Status"}
    /\ mu = p /\ mu' = "free"
    /\ result'[p] # "panic"

\* C1: in every reachable state, enabled == false implies connected == false.
C1_DisabledImpliesDisconnected == ~enabled => ~connected

\* C3: the lock is never held by a goroutine while its status request is in
\* flight or while it sleeps between two attempts.
C3_LockFreeDuringProbe ==
    \A p \in Procs : (req[p].kind = "status" \/ pc[p] = "sleep") => mu # p

\* C4: Reconfigure with a valid configuration returns normally, with enabled
\* true and connected equal to the outcome of one probe against the new
\* endpoint, whatever the client's state before.
C4_ReconfigureValidReturns ==
    [][\A p \in Procs :
         (Returns(p, "Reconfigure") /\ ~Disabling(arg'[p])) =>
            /\ result'[p] = "ok"
            /\ enabled'
            /\ Len(tries'[p]) = 1
            /\ connected' = tries'[p][1]
            /\ req[p].url = arg'[p].Host]_vars

\* C5: Reconfigure with a nil, not-enabled or host-less configuration returns
\* nil, leaves enabled and connected false, and issues no request.
C5_ReconfigureDisables ==
    [][\A p \in Procs :
         (Returns(p, "Reconfigure") /\ Disabling(arg'[p])) =>
            /\ result'[p] = "ok"
            /\ ~enabled' /\ ~connected'
            /\ req'[p] = NoReq /\ tries'[p] = <<>>
            /\ mu' = "free"]_vars

\* C5 witness: a client that was configured and had been connected has been
\* disabled by Reconfigure.
C5_Witness ==
    /\ pc["settings"] = "ret" /\ op["settings"] = "Reconfigure"
    /\ Disabling(arg["settings"])
    /\ baseURL \in Hosts /\ lastCheck > 0
    /\ ~enabled /\ ~connected

\* C7: the pair (IsEnabled, IsConnected) that ProPresenterStatus reads is a
\* connection state that was published as a whole at some moment of the read.
C7_NoTornRead ==
    \A p \in Readers :
        (op[p] = "Status" /\ pc[p] = "ret" /\ obs[p].e) =>
            <<obs[p].e, obs[p].c>> \in during[p]

\* C8: Health stops at its first successful attempt, returns success and
\* leaves connected true; after two failures it makes a third request.
C8_HealthStopsAtFirstSuccess ==
    [][\A p \in Procs :
         HealthReturns(p) =>
            LET t == tries'[p] IN
            /\ Len(t) \in 1..3
            /\ \A i \in 1..(Len(t) - 1) : ~t[i]
            /\ (Len(t) < 3 => t[Len(t)])
            /\ (t[Len(t)] => result'[p] = "ok" /\ connected')
            /\ (result'[p] = "ok" => t[Len(t)])]_vars

\* C8 witness: a Health call whose status request failed twice and then
\* succeeded has returned success with connected true.
C8_Witness ==
    \E p \in Procs :
        /\ op[p] = "Status" /\ pc[p] = "st_conn2"
        /\ tries[p] = <<FALSE, FALSE, TRUE>>
        /\ result[p] = "ok" /\ connected

\* C9: a Health call whose status requests all fail never writes connected =
\* true, makes exactly 3 requests, returns the failure of the last one and
\* leaves connected false.
C9_HealthAllFail ==
    [][\A p \in Procs :
         (op[p] \in {"New", "Status"} /\ mu = p
            /\ \A i \in 1..Len(tries'[p]) : ~tries'[p][i]) =>
            /\ (connected' => connected)
            /\ (mu' = "free" /\ result'[p] # "panic") =>
                  /\ Len(tries'[p]) = 3
                  /\ result'[p] = "unreachable" /\ lastErr'[p] = 3
                  /\ ~connected']_vars

\* C9 witness: a client that had been connected is left with connected false
\* by a Health call whose three status requests failed.
C9_Witness ==
    \E p \in Procs :
        /\ op[p] = "Status" /\ pc[p] = "ret"
        /\ tries[p] = <<FALSE, FALSE, FALSE>>
        /\ result[p] = "unreachable" /\ lastErr[p] = 3
        /\ lastCheck > 0 /\ enabled /\ ~connected

\* C10: while the client is disabled, a step of the periodic health check
\* issues no request and changes no field of the client.
C10_TickInertWhileDisabled ==
    [][\A p \in Procs :
         (op'[p] = "Tick" /\ pc'[p] # pc[p] /\ ~enabled) =>
            (req'[p] = NoReq /\ UNCHANGED client)]_vars

\* C2: no request of a client operation is issued while enabled is false,
\* also when Reconfigure disables the client while the operation runs.
C2_NoRequestWhileDisabled ==
    \A p \in Procs : req[p].kind # "none" => req[p].en

\* C6: every request of one SendToLiveQueue invocation goes to the endpoint
\* its first request went to.
C6_OneEndpointPerInvocation ==
    \A p \in Procs :
        (op[p] = "SendToLiveQueue" /\ req[p].kind # "none") => req[p].url = wf.first

\* A step in which a status request is answered with a failure.
ProbeFails ==
    \E p \in Procs : Len(tries'[p]) > Len(tries[p]) /\ ~tries'[p][Len(tries'[p])]

\* C11: with no caller asking for the status, a client that stays enabled
\* while the device answers every status request from some moment on ends
\* up connected, whether or not it was enabled when main started it.
C11_EnabledEventuallyConnected ==
    (<>[]enabled /\ <>[][~ProbeFails]_vars) => <>[]connected

\* The health-check goroutine has just recorded a failed probe.
TickFailed ==
    /\ op["ticker"] = "Tick" /\ pc["ticker"] = "done"
    /\ tries["ticker"] = <<FALSE>>

\* C12: a failing probe of the health-check goroutine is recorded as
\* connected = false with the lock released and the goroutine still running;
\* the goroutine probes again, and once the device answers every status
\* request the client is reported connected again and again.
C12_TickSurvivesFailure ==
    /\ [][\A p \in Procs :
            (op[p] = "Tick" /\ pc[p] = "probe_wait" /\ pc'[p] # pc[p]
                /\ ~tries'[p][Len(tries'[p])]) =>
               /\ ~connected' /\ mu' = "free"
               /\ ticker' = "on" /\ pc'[p] = "done"]_vars
    /\ (TickFailed ~> (req["ticker"].kind = "status"))
    /\ ((<>(ticker = "on") /\ <>[][~ProbeFails]_vars) => []<>connected)

\* C12 witness: the goroutine has recorded a failed probe on a client that
\* had been connected: connected is false, the lock free, the ticker alive.
C12_Witness ==
    /\ TickFailed
    /\ ticker = "on" /\ mu = "free"
    /\ enabled /\ ~connected /\ lastCheck > 0

\* The fields of the connection state and the configuration.
ConnectionFields == <<enabled, connected, lastCheck, config, baseURL>>

\* C13: no step of a lookup, workflow or command operation changes enabled,
\* connected, lastCheck, the configuration or the base URL; a step that does
\* change one of them belongs to New, Reconfigure, Health or the periodic
\* health check.
C13_OperationsLeaveStateAlone ==
    [][/\ \A p \in Procs :
            (op'[p] \in PublicOps /\ (pc'[p] # pc[p] \/ req'[p] # req[p])) =>
                UNCHANGED ConnectionFields
       /\ ~(UNCHANGED ConnectionFields) =>
            \E p \in Procs : /\ op'[p] \in {"New", "Reconfigure", "Status", "Tick"}
                              /\ pc'[p] # pc[p]]_vars

\* C13 witness: SendToLiveQueue has failed at its playlist step, after
\* requests that failed, on a client that is still enabled and connected.
C13_Witness ==
    /\ op["queue"] = "SendToLiveQueue" /\ pc["queue"] = "ret"
    /\ result["queue"] = "playlist_failed" /\ wf.attempt = StepAttempts
    /\ enabled /\ connected /\ lastCheck > 0 /\ baseURL \in Hosts

\* The failure SendToLiveQueue returns when step s has failed three times.
StepTag(s) ==
    CASE s = 1 -> "song_not_found"
      [] s = 2 -> "playlist_failed"
      [] OTHER -> "add_failed"

\* The requests that belong to step s of SendToLiveQueue.
StepRequests(s) ==
    CASE s = 1 -> {"SearchLibrary"}
      [] s = 2 -> {"GetPlaylists", "CreatePlaylist"}
      [] OTHER -> {"AddToPlaylist"}

\* C14: SendToLiveQueue moves to the next step only after a successful
\* answer, issues in each step only that step's requests, and the third
\* failure of a step ends it with the failure that names the step: after a
\* failed item resolution only library searches were issued, after a failed
\* playlist resolution no add-to-playlist request.
C14_StepFailureAborts ==
    [][\A p \in Procs : op[p] = "SendToLiveQueue" =>
          /\ (wf.step >= 1 /\ wf'.step > wf.step) =>
                /\ pc[p] = "m_got" /\ wf.ans.st = "ok"
                /\ (wf.step = 1 => wf.ans.items # <<>>)
          /\ (pc[p] = "m_send" /\ pc'[p] = "m_wait") => wf.meth \in StepRequests(wf.step)
          /\ (wf.attempt < StepAttempts /\ wf'.attempt = StepAttempts) =>
                /\ pc'[p] = "ret" /\ result'[p] = StepTag(wf.step)
          /\ (pc[p] = "ret" /\ result[p] \in {StepTag(1), StepTag(2), StepTag(3)}) =>
                /\ result[p] = StepTag(wf.step) /\ wf.attempt = StepAttempts
                /\ wf.sent \subseteq UNION {StepRequests(s) : s \in 1..wf.step}
                /\ Steps(p) => pc'[p] = "done"]_vars

\* C14 witness: after the item was resolved, the playlist step failed three
\* times with listing and creation requests, and the workflow has returned
\* the playlist failure without an add-to-playlist request.
C14_Witness ==
    /\ op["queue"] = "SendToLiveQueue" /\ pc["queue"] = "ret"
    /\ result["queue"] = "playlist_failed" /\ wf.attempt = StepAttempts
    /\ wf.item # ""
    /\ wf.sent = {"SearchLibrary", "GetPlaylists", "CreatePlaylist"}

\* The UUIDs of the library items.
ItemUUIDs == {i.uuid : i \in LibraryItems}

\* C15: a SendToLiveQueue that has returned a UUID returned the UUID of the
\* item it resolved; exactly one of its add-to-playlist requests was
\* answered with success, the last one, which carried that item's UUID and
\* the UUID of the playlist it resolved; and when the add succeeded at its
\* first attempt it issued one add-to-playlist request in all.
C15_SuccessMeansOneAdd ==
    \A p \in Procs :
        (op[p] = "SendToLiveQueue" /\ pc[p] = "ret" /\ result[p] \in ItemUUIDs) =>
            /\ result[p] = wf.item
            /\ wf.okAdds = 1
            /\ wf.body = <<wf.playlist, wf.item>>
            /\ wf.adds \in 1..(wf.attempt + 1)
            /\ wf.step = 3
            /\ {"SearchLibrary", "GetPlaylists", "AddToPlaylist"} \subseteq wf.sent

\* C15 witness: SendToLiveQueue has returned item i3 after adding it to the
\* existing playlist p2 with one add-to-playlist request.
C15_Witness ==
    /\ op["queue"] = "SendToLiveQueue" /\ pc["queue"] = "ret"
    /\ result["queue"] = "i3"
    /\ wf.body = <<"p2", "i3">> /\ wf.adds = 1 /\ wf.okAdds = 1
    /\ wf.sent = {"SearchLibrary", "GetPlaylists", "AddToPlaylist"}

\* The name s matches the key k: equal after trimming and ignoring case.
SameName(s, k) == ToLower(TrimSpace(s)) = ToLower(TrimSpace(k))

\* C16: when FindSongByTitle has the answer to its library search, it
\* returns the first entry of the listing whose name matches the title; with
\* no such entry the first entry of the listing; with an empty listing the
\* not-found failure; and after a transport, status or decoding failure that
\* failure and no item.
C16_FindSongByTitle ==
    [][\A p \in Procs :
         (op[p] = "FindSongByTitle" /\ pc[p] = "m_got" /\ Steps(p)) =>
            LET L == wf.ans.items
                hits == {i \in 1..Len(L) : SameName(L[i].name, wf.title)}
            IN /\ pc'[p] = "ret"
               /\ (wf.ans.st = "ok" /\ hits # {}) =>
                     /\ result'[p] = "ok"
                     /\ \E i \in hits : /\ \A j \in hits : i <= j
                                        /\ wf'.item = L[i].uuid
               /\ (wf.ans.st = "ok" /\ hits = {} /\ Len(L) > 0) =>
                     /\ result'[p] = "ok" /\ wf'.item = L[1].uuid
               /\ (wf.ans.st = "ok" /\ Len(L) = 0) =>
                     /\ result'[p] = "notfound" /\ wf'.item = ""
               /\ (wf.ans.st = "err") => (result'[p] = "transport" /\ wf'.item = "")
               /\ (wf.ans.st = "bad") => (result'[p] = "status" /\ wf'.item = "")
               /\ (wf.ans.st = "undecodable") =>
                     (result'[p] = "decode" /\ wf'.item = "")]_vars

\* C16 witness: FindSongByTitle("Amazing Grace") has returned the entry
\* named " amazing grace ".
C16_Witness ==
    /\ op["queue"] = "FindSongByTitle" /\ pc["queue"] = "ret"
    /\ wf.title = "Amazing Grace"
    /\ result["queue"] = "ok" /\ wf.item = "i2"

\* The operations that run FindOrCreatePlaylist.
ResolvesPlaylist == {"FindOrCreatePlaylist", "CreatePlaylist", "SendToLiveQueue"}

\* C17: when FindOrCreatePlaylist has a playlist listing with an entry whose
\* name matches, it returns the first such entry and issues no request; it
\* turns to the create request only from a listing that was received and
\* decoded and has no matching entry, and a create request is issued by
\* CreatePlaylist only.
C17_NoCreateWhenListed ==
    [][\A p \in Procs :
         (op[p] \in ResolvesPlaylist /\ Steps(p)) =>
            LET L == wf.ans.items
                hits == {i \in 1..Len(L) : SameName(L[i].name, wf.name)}
            IN /\ (pc[p] = "m_got" /\ wf.meth = "GetPlaylists"
                      /\ wf.ans.st = "ok" /\ hits # {}) =>
                     /\ wf'.meth # "CreatePlaylist" /\ wf'.sent = wf.sent
                     /\ \E i \in hits : /\ \A j \in hits : i <= j
                                        /\ wf'.playlist = L[i].uuid
                     /\ op[p] = "FindOrCreatePlaylist" =>
                           (pc'[p] = "ret" /\ result'[p] = "ok")
               /\ (wf'.meth = "CreatePlaylist" /\ wf.meth # "CreatePlaylist") =>
                     /\ pc[p] = "m_got" /\ wf.meth = "GetPlaylists"
                     /\ wf.ans.st = "ok" /\ hits = {}
               /\ ("CreatePlaylist" \in wf'.sent /\ "CreatePlaylist" \notin wf.sent) =>
                     wf.meth = "CreatePlaylist"]_vars

\* C17 witness: FindOrCreatePlaylist("Live Queue") has returned the existing
\* playlist named " live queue " after the listing request alone.
C17_Witness ==
    /\ op["queue"] = "FindOrCreatePlaylist" /\ pc["queue"] = "ret"
    /\ wf.name = "Live Queue"
    /\ result["queue"] = "ok" /\ wf.playlist = "p2"
    /\ wf.sent = {"GetPlaylists"}

\* C18: when the create request was accepted and the body does not decode,
\* CreatePlaylist returns no error and counts no failed attempt: it goes on
\* to list the playlists again; when that listing has an entry whose name
\* matches, the first such entry is returned and no further request is
\* issued; a further create request follows only a listing without a match.
C18_MissingBodyRelists ==
    [][\A p \in Procs :
         (op[p] \in ResolvesPlaylist /\ pc[p] = "m_got" /\ Steps(p)) =>
            LET L == wf.ans.items
                hits == {i \in 1..Len(L) : SameName(L[i].name, wf.name)}
            IN /\ (wf.meth = "CreatePlaylist" /\ wf.ans.st = "undecodable") =>
                     /\ pc'[p] = "m_check" /\ wf'.meth = "GetPlaylists"
                     /\ wf'.depth = Deeper(wf.depth)
                     /\ result'[p] = result[p] /\ wf'.attempt = wf.attempt
               /\ (wf.meth = "GetPlaylists" /\ wf.depth > 0
                      /\ wf.ans.st = "ok" /\ hits # {}) =>
                     /\ \E i \in hits : /\ \A j \in hits : i <= j
                                        /\ wf'.playlist = L[i].uuid
                     /\ wf'.sent = wf.sent /\ wf'.meth # "CreatePlaylist"
                     /\ op[p] # "SendToLiveQueue" =>
                           (pc'[p] = "ret" /\ result'[p] = "ok")
               /\ (wf.depth > 0 /\ wf.meth # "CreatePlaylist"
                      /\ wf'.meth = "CreatePlaylist") =>
                     (wf.meth = "GetPlaylists" /\ wf.ans.st = "ok" /\ hits = {})]_vars

\* C18 witness: CreatePlaylist("Live Queue"), answered with a success
\* without a decodable body, has listed the playlists again and returned
\* the playlist named " live queue " from that listing.
C18_Witness ==
    /\ op["queue"] = "CreatePlaylist" /\ pc["queue"] = "ret"
    /\ wf.name = "Live Queue" /\ wf.depth = 1 /\ wf.meth = "GetPlaylists"
    /\ result["queue"] = "ok" /\ wf.playlist = "p2"
    /\ wf.sent = {"CreatePlaylist", "GetPlaylists"}

\* The slide and layer commands.
Commands ==
    {"TriggerNextSlide", "TriggerPreviousSlide", "ClearLayer", "TriggerLibraryItem"}

\* C19: a slide or layer command that found the client enabled has issued
\* exactly one request when it returns: it sends a request only when it has
\* sent none, returns as soon as the request is answered, and returns the
\* transport failure when the request failed.
C19_CommandsSendOnce ==
    [][\A p \in Procs : (op[p] \in Commands /\ Steps(p)) =>
          /\ (pc[p] = "m_send" /\ pc'[p] = "m_wait") => wf.sent = {}
          /\ pc[p] = "m_got" => pc'[p] = "ret"
          /\ (pc[p] = "m_got" /\ wf.ans.st = "err") => result'[p] = "transport"
          /\ (pc[p] # "ret" /\ pc'[p] = "ret" /\ result'[p] # "disabled") =>
                wf'.sent = {op[p]}]_vars

\* The threshold goroutine can take no further step: it has returned, or it
\* waits for a mutex that it holds itself.
ThresholdAtRest ==
    \/ bpc["threshold"] = "idle"
    \/ bpc["threshold"] = "backup" /\ bmu = "threshold"

\* C20: an automatic backup is created every 100 edits: once the threshold
\* goroutine has come to rest, each full hundred of song creations and
\* updates has led to one attempt to create an edit-threshold backup, and the
\* recorded count is the number of edits covered by the backups made.
C20_BackupEvery100Edits ==
    ThresholdAtRest =>
        /\ backups["edit-threshold"].made + backups["edit-threshold"].failed
              = edits \div editsThreshold
        /\ lastEditCount = editsThreshold * backups["edit-threshold"].made

\* C21: every call of the backup manager terminates and releases its mutex:
\* no goroutine waiting in CreateBackup for the mutex finds it held by a
\* goroutine that is itself waiting for it, so whoever holds the mutex goes
\* on to release it.
C21_ManagerCallsTerminate ==
    \A g \in Workers :
        bpc[g] = "backup" => bmu \notin {h \in Workers : bpc[h] = "backup"}

\* C22: every invocation of FindOrCreatePlaylist and of SendToLiveQueue
\* terminates, whatever the device answers: once called, the operation
\* returns to the handler.
C22_PlaylistCallsTerminate ==
    (op["queue"] \in {"FindOrCreatePlaylist", "SendToLiveQueue"}) ~> (pc["queue"] = "ret")

\* C23: every probe whose outcome is published to connected uses the bounded
\* retry: the step in which a goroutine leaves its probe publishes the outcome
\* of its last attempt, and publishes a failure only after MaxAttempts
\* attempts, whether the probe is Health's, Reconfigure's or a tick's.
C23_EveryProbeRetries ==
    [][\A p \in Procs :
          (pc[p] = "probe_wait" /\ pc'[p] \notin {"probe_wait", "sleep"}) =>
              /\ connected' = tries'[p][Len(tries'[p])]
              /\ ~connected' => Len(tries'[p]) = MaxAttempts]_vars

\* The answer at hand makes the current step of SendToLiveQueue succeed: the
\* item is found, the playlist is found or created, or the add is accepted.
StepSucceeds(p) ==
    /\ pc[p] = "m_got"
    /\ MethodResult(wf.meth, wf.ans.st) = "ok"
    /\ wf.meth = "SearchLibrary" => FindSongByTitle(wf.ans.items, wf.title) # NotFound
    /\ wf.meth = "GetPlaylists" => FirstMatch(wf.ans.items, wf.name) # NotFound

\* C24: in SendToLiveQueue a step is attempted at most StepAttempts times and
\* stops at its first success; the next step then starts with its first
\* attempt whatever the failures before; a further attempt follows only a
\* failed one; and the workflow never goes back to a step that succeeded.
C24_StepsRetryIndependently ==
    [][\A p \in Procs : (op[p] = "SendToLiveQueue" /\ Steps(p) /\ pc[p] # "ret") =>
          /\ (wf.step >= 1 /\ pc[p] \in {"m_check", "m_send", "m_wait", "m_got"}) =>
                wf.attempt < StepAttempts
          /\ wf'.step >= wf.step
          /\ (wf.step >= 1 /\ StepSucceeds(p)) =>
                /\ wf'.attempt = IF wf.step < 3 THEN 0 ELSE wf.attempt
                /\ IF wf.step < 3
                   THEN /\ wf'.step = wf.step + 1
                        /\ pc'[p] = "m_check" /\ wf'.meth = StepMethod(wf'.step)
                   ELSE pc'[p] = "ret" /\ result'[p] = wf.item
          /\ (wf.step >= 1 /\ wf'.step > wf.step) => StepSucceeds(p)
          /\ wf'.attempt > wf.attempt =>
                /\ ~StepSucceeds(p)
                /\ wf'.attempt = wf.attempt + 1 /\ wf'.step = wf.step
          /\ pc'[p] = "sq_sleep" => wf'.attempt < StepAttempts]_vars

\* C24 witness: the add succeeded at its third attempt, after the item and
\* the playlist were resolved: three add requests, one accepted.
C24_Witness ==
    /\ op["queue"] = "SendToLiveQueue" /\ pc["queue"] = "ret"
    /\ result["queue"] = wf.item /\ wf.item # ""
    /\ wf.step = 3 /\ wf.attempt = StepAttempts - 1
    /\ wf.adds = StepAttempts /\ wf.okAdds = 1

\* C25: in ProPresenterSendToQueue no library lookup is issued, and when no
\* playlist UUID could be resolved the handler issues no add-to-playlist
\* request and ends with the playlist-unresolved failure.
C25_UnresolvedPlaylistNoAdd ==
    [][\A p \in Procs : (op[p] = "ProPresenterSendToQueue" /\ Steps(p)) =>
          /\ wf'.sent \cap {"SearchLibrary", "GetLibrary"} = {}
          /\ (pc[p] = "m_send" /\ pc'[p] = "m_wait" /\ wf.meth = "AddToPlaylist") =>
                ~Unset(wf.playlist)
          /\ (pc[p] # "ret" /\ pc'[p] = "ret" /\ wf'.item # "" /\ Unset(wf'.playlist)) =>
                result'[p] = "playlist_unresolved"]_vars

\* The outcome of the attempt that goroutine p has just completed.
Outcome(p) == tries'[p][Len(tries'[p])]

\* C26: connected is the outcome of the probe completed last, or false after
\* a call that found or made the client disabled: connected changes only in
\* the step in which the goroutine holding the lock completes its probe, to
\* that probe's outcome, or to false on a disabled client; a probe is
\* answered by the endpoint that is current when it completes; and while a
\* goroutine holds the lock for its probe no other goroutine writes
\* connected, the endpoint or enabled.
C26_LatestProbeWins ==
    [][/\ connected' # connected =>
            \/ \E p \in Procs : /\ pc[p] = "probe_wait" /\ Steps(p) /\ mu = p
                                 /\ connected' = Outcome(p)
            \/ ~connected' /\ ~enabled'
       /\ \A p \in Procs : (pc[p] = "probe_wait" /\ Steps(p)) =>
              /\ mu = p /\ mu' = IF pc'[p] = "sleep" THEN p ELSE "free"
              /\ req[p].url = baseURL
              /\ pc'[p] # "sleep" => connected' = Outcome(p)
       /\ \A p \in Procs : (mu = p /\ ~Steps(p)) =>
              UNCHANGED <<connected, baseURL, enabled, lastCheck>>]_vars

\* C26 witness: the tick's probe failed, then Reconfigure's probe of another
\* endpoint succeeded: connected is true, the later outcome.
C26_Witness ==
    /\ op["ticker"] = "Tick" /\ pc["ticker"] = "done" /\ tries["ticker"] = <<FALSE>>
    /\ op["settings"] = "Reconfigure" /\ pc["settings"] = "ret"
    /\ tries["settings"] = <<TRUE>>
    /\ baseURL = "h2" /\ enabled /\ connected

\* The operations that change something on the device.
SideEffecting ==
    {"AddToPlaylist", "CreatePlaylist", "TriggerLibraryItem",
     "TriggerNextSlide", "TriggerPreviousSlide", "ClearLayer"}

\* C27: a side-effecting command that the device answers with a non-success
\* status returns a failure to its caller, never success.
C27_RejectionIsFailure ==
    [][\A p \in Procs :
          (op[p] \in SideEffecting /\ Steps(p) /\ pc[p] = "m_got" /\ wf.ans.st = "bad") =>
              pc'[p] = "ret" /\ result'[p] = "status"]_vars

\* C28: the playlist name of a queue sync is the explicit name of the caller
\* if not empty, otherwise the configured default (Config.PlaylistID), and
\* the hardcoded "Live Queue" only when both are empty: the name
\* SendToLiveQueue goes on with after its entry tests.
C28_PlaylistNameOrder ==
    [][\A p \in Procs :
          (op[p] = "SendToLiveQueue" /\ pc[p] = "sq_enter" /\ pc'[p] = "m_check") =>
              wf'.name = IF wf.name # "" THEN wf.name
                         ELSE IF config.PlaylistID # "" THEN config.PlaylistID
                         ELSE "Live Queue"]_vars

\* C29: once the calls in progress have returned, the positions of the n
\* queue items are pairwise distinct and are exactly 1..n, also when calls
\* run concurrently.
C29_PositionsDense ==
    (\A c \in Callers : qpc[c] = "idle") =>
        /\ \A r1, r2 \in rows : r1.pos = r2.pos => r1 = r2
        /\ {r.pos : r \in rows} = 1..Cardinality(rows)

\* C30: a song is in the local queue at most once, also when two
\* AddToQueue calls for the same song run concurrently.
C30_SongQueuedOnce ==
    \A r1, r2 \in rows : r1.song = r2.song => r1 = r2

====
